---- MODULE Spec2Model ----
(***************************************************************************)
(* xatag: tags stored in extended attributes.                              *)
(*                                                                         *)
(* A model of src/xatag/attributes.py (the codec and the attribute-name    *)
(* adapter) and of src/xatag/operations.py (the mutation engine).          *)
(*                                                                         *)
(* Strings are sequences of one-character strings, so that split, join,    *)
(* sort, replace and startswith are computed the way Python computes them. *)
(* A file's attribute table is a function from attribute names to values.  *)
(***************************************************************************)
EXTENDS Integers, Sequences, FiniteSets, TLC

VARIABLES
    attrs,      \* the file's attribute table: [names present -> value string]
    pre,        \* the attribute table before the last engine call
    op,         \* the last engine call: [name, tags, quiet]
    warns,      \* the warnings the last engine call emitted, in order
    raised,     \* "none", or the exception the last engine call ended with
    kin,        \* name adapter: the tag key given to xatag_to_xattr_key
    kname,      \* name adapter: the attribute name made from kin
    kback,      \* name adapter: the key read back from kname
    kpc,        \* name adapter: "idle", "key", "name" or "back"
    cval,       \* codec: the encoded value given to or made by the codec
    clist,      \* codec: the list of tag values given to the codec
    cout,       \* codec: what the last codec function returned
    cpc,        \* codec: "idle", "in", "encoded", "decoded" or "added"
    iargs,      \* index refresh: the arguments of update_recoll_index
    ienv,       \* index refresh: how each external step of the hook ends
    iout,       \* index refresh: the outcome of update_recoll_index
    ipc,        \* index refresh: "idle", "call" or "done"
    ot1,        \* two adds: the tags of the one add_tags
    ot2,        \* two adds: the tags of the other add_tags
    oab,        \* two adds: the table of the copy given ot1, then ot2
    oba,        \* two adds: the table of the copy given ot2, then ot1
    opc         \* two adds: "idle" or "done"

vars == <<attrs, pre, op, warns, raised, kin, kname, kback, kpc,
          cval, clist, cout, cpc, iargs, ienv, iout, ipc,
          ot1, ot2, oab, oba, opc>>

\* the variables of the name adapter and of the codec on their own
kvars == <<kin, kname, kback, kpc>>
cvars == <<cval, clist, cout, cpc>>
ivars == <<iargs, ienv, iout, ipc>>
ovars == <<ot1, ot2, oab, oba, opc>>

-----------------------------------------------------------------------------
(* Bounds of the model *)

\* the most tags (key and value pairs) one tags argument holds
MaxTags == 2
\* the longest list of values given to the codec on its own
MaxValues == 2
\* the longest list of files (and of destinations) given to the index refresh
MaxFiles == 2
\* the most tags either of two add_tags calls made in both orders holds
MaxAddTags == 1
\* the longest free-form tag key given to the attribute-name adapter
MaxKeyLen == 3

-----------------------------------------------------------------------------
(* Strings *)

\* attributes.py:5  XATTR_PREFIX = 'org.xatag.tags'
XATTR_PREFIX == <<"o","r","g",".","x","a","t","a","g",".","t","a","g","s">>

\* attributes.py:6  XATTR_FIELD_SEPARATOR = ';'
XATTR_FIELD_SEPARATOR == ";"

\* the literal 'user.' of attributes.py:10, 20, 22, 27
UserDot == <<"u","s","e","r",".">>

\* the literal 'tags' of attributes.py:19 (constants.DEFAULT_TAG_KEY)
TagsKey == <<"t","a","g","s">>

\* the empty string: the default key, and the value sentinel
Empty == <<>>

\* Python compares str byte by byte: the characters the model uses, in
\* ASCII order (sorted() at attributes.py:44)
AsciiOrder == <<" ", ".", ";", "a", "b", "e", "g", "o", "r", "s", "t", "u", "x">>

Ord(c) == CHOOSE i \in 1..Len(AsciiOrder) : AsciiOrder[i] = c

\* a < b for str, as sorted() at attributes.py:44 compares
RECURSIVE StrLess(_, _)
StrLess(a, b) ==
    IF b = <<>> THEN FALSE
    ELSE IF a = <<>> THEN TRUE
    ELSE IF a[1] = b[1] THEN StrLess(Tail(a), Tail(b))
    ELSE Ord(a[1]) < Ord(b[1])

\* str.startswith (attributes.py:10)
StartsWith(s, p) == Len(s) >= Len(p) /\ SubSeq(s, 1, Len(p)) = p

\* str.replace(old, ''): every non-overlapping occurrence, left to right
\* (attributes.py:27-28)
RECURSIVE ReplaceWithEmpty(_, _)
ReplaceWithEmpty(s, old) ==
    IF Len(s) < Len(old) THEN s
    ELSE IF SubSeq(s, 1, Len(old)) = old
         THEN ReplaceWithEmpty(SubSeq(s, Len(old) + 1, Len(s)), old)
         ELSE <<s[1]>> \o ReplaceWithEmpty(Tail(s), old)

\* str.split(sep): one token more than there are separators
\* (attributes.py:39)
RECURSIVE Split(_, _)
Split(s, sep) ==
    IF \A i \in 1..Len(s) : s[i] # sep THEN <<s>>
    ELSE LET i == CHOOSE j \in 1..Len(s) :
                     s[j] = sep /\ \A h \in 1..(j - 1) : s[h] # sep
         IN  <<SubSeq(s, 1, i - 1)>> \o Split(SubSeq(s, i + 1, Len(s)), sep)

\* sep.join(list) (attributes.py:44)
RECURSIVE Join(_, _)
Join(list, sep) ==
    IF list = <<>> THEN <<>>
    ELSE IF Len(list) = 1 THEN list[1]
    ELSE list[1] \o <<sep>> \o Join(Tail(list), sep)

\* insertion of x into an ascending list, after its equals (sorted() is stable)
RECURSIVE InsertSorted(_, _)
InsertSorted(x, list) ==
    IF list = <<>> THEN <<x>>
    ELSE IF StrLess(x, list[1]) THEN <<x>> \o list
    ELSE <<list[1]>> \o InsertSorted(x, Tail(list))

\* sorted(list) (attributes.py:44)
RECURSIVE Sorted(_)
Sorted(list) ==
    IF list = <<>> THEN <<>>
    ELSE InsertSorted(list[Len(list)], Sorted(SubSeq(list, 1, Len(list) - 1)))

\* the elements of a list, as a set
Range(list) == {list[i] : i \in 1..Len(list)}

\* str.strip(): leading and trailing blanks removed
RECURSIVE Strip(_)
Strip(s) ==
    IF s = <<>> THEN s
    ELSE IF s[1] = " " THEN Strip(Tail(s))
    ELSE IF s[Len(s)] = " " THEN Strip(SubSeq(s, 1, Len(s) - 1))
    ELSE s

\* tag.format_tag_key: the key normalization (trimmed; idempotent; '' stays '')
format_tag_key(key) == Strip(key)

\* tag.format_tag_value: the value normalization (trimmed; idempotent; '' stays '')
format_tag_value(value) == Strip(value)

-----------------------------------------------------------------------------
(* attributes.py *)

\* is_xatag_xattr_key(name), attributes.py:8-10
is_xatag_xattr_key(name) ==
    StartsWith(name, UserDot \o XATTR_PREFIX) \/ StartsWith(name, XATTR_PREFIX)

\* xatag_to_xattr_key(tag_or_key), attributes.py:12-22
xatag_to_xattr_key(tag_or_key) ==
    LET key == format_tag_key(tag_or_key)
    IN  IF key = Empty \/ key = TagsKey
        THEN UserDot \o XATTR_PREFIX
        ELSE UserDot \o XATTR_PREFIX \o <<".">> \o key

\* xattr_to_xatag_key as it would be without line 29: the '.' that joins
\* prefix and key stays
xattr_to_xatag_key_keeps_dot(key) ==
    ReplaceWithEmpty(ReplaceWithEmpty(format_tag_key(key), UserDot \o XATTR_PREFIX),
                     XATTR_PREFIX)

\* xattr_to_xatag_key(key), attributes.py:24-30
xattr_to_xatag_key(key) ==
    LET k1 == format_tag_key(key)
        k2 == ReplaceWithEmpty(k1, UserDot \o XATTR_PREFIX)
        k3 == ReplaceWithEmpty(k2, XATTR_PREFIX)
    IN  IF k3 # Empty /\ k3[1] = "." THEN Tail(k3) ELSE k3

\* xattr_value_to_list as it would be without the condition of line 40:
\* empty tokens stay in the list
xattr_value_to_list_keeps_empty(tag_string) ==
    LET tokens == Split(tag_string, XATTR_FIELD_SEPARATOR)
    IN  [i \in 1..Len(tokens) |-> format_tag_value(tokens[i])]

\* xattr_value_to_list(tag_string), attributes.py:37-40
xattr_value_to_list(tag_string) ==
    LET tokens == Split(tag_string, XATTR_FIELD_SEPARATOR)
        formatted == [i \in 1..Len(tokens) |-> format_tag_value(tokens[i])]
    IN  SelectSeq(formatted, LAMBDA x : x # Empty)

\* list_to_xattr_value as it would be without sorted() at line 44: the
\* values are joined in the order of the list
list_to_xattr_value_unsorted(tag_list) ==
    Join([i \in 1..Len(tag_list) |-> format_tag_value(tag_list[i])],
         XATTR_FIELD_SEPARATOR)

\* list_to_xattr_value(tag_list), attributes.py:42-44
list_to_xattr_value(tag_list) ==
    Join(Sorted([i \in 1..Len(tag_list) |-> format_tag_value(tag_list[i])]),
         XATTR_FIELD_SEPARATOR)

\* remove_tag_values_from_xattr_value as it would be without lines 57-58:
\* in complement mode the sentinel is a value like any other
remove_tag_values_from_xattr_value_no_wildcard(xattr_value, tag_values, complement) ==
    LET current_values == xattr_value_to_list(xattr_value)
        tag_values_set == Range(tag_values)
    IN  list_to_xattr_value(
            IF complement
            THEN SelectSeq(current_values, LAMBDA v : v \in tag_values_set)
            ELSE SelectSeq(current_values, LAMBDA v : v \notin tag_values_set))

\* remove_tag_values_from_xattr_value(xattr_value, tag_values, complement),
\* attributes.py:51-63
remove_tag_values_from_xattr_value(xattr_value, tag_values, complement) ==
    LET current_values == xattr_value_to_list(xattr_value)
        tag_values_set == Range(tag_values)
        values ==
            IF complement
            THEN IF Empty \in tag_values_set
                 THEN current_values
                 ELSE SelectSeq(current_values, LAMBDA v : v \in tag_values_set)
            ELSE SelectSeq(current_values, LAMBDA v : v \notin tag_values_set)
    IN  list_to_xattr_value(values)

\* add_tag_values_to_xattr_value as it would be without the filter of
\* line 69: every given value is appended
add_tag_values_to_xattr_value_no_filter(xattr_value, values_to_add) ==
    list_to_xattr_value(xattr_value_to_list(xattr_value) \o values_to_add)

\* add_tag_values_to_xattr_value(xattr_value, values_to_add), attributes.py:65-70
add_tag_values_to_xattr_value(xattr_value, values_to_add) ==
    LET current_values == xattr_value_to_list(xattr_value)
        values == current_values \o
                  SelectSeq(values_to_add, LAMBDA v : v \notin Range(current_values))
    IN  list_to_xattr_value(values)

\* read_tags_as_dict(fname), attributes.py:72-77, as the set of
\* (key, value list) items the dict comprehension produces
read_tags_as_dict(A) ==
    {<<xattr_to_xatag_key(n), xattr_value_to_list(A[n])>> :
        n \in {m \in DOMAIN A : is_xatag_xattr_key(m)}}

-----------------------------------------------------------------------------
(* The inputs of the engine *)

\* the tag keys the engine is called with: the default key '', its name
\* 'tags', and an ordinary key
Keys == {Empty, TagsKey, <<"g">>}

\* the tag values the engine is called with: the sentinel '' and two
\* values, normalized and free of the field separator
Values == {Empty, <<"a">>, <<"b">>}

\* the value lists of a tag dictionary: distinct values, in any order
ValueLists ==
    UNION {{s \in [1..n -> Values] : \A i, j \in 1..n : i # j => s[i] # s[j]} :
              n \in 0..MaxTags}

\* the number of tags (key and value pairs) a tag dictionary holds
RECURSIVE TagCount(_, _)
TagCount(d, S) ==
    IF S = {} THEN 0
    ELSE LET k == CHOOSE x \in S : TRUE
         IN  Len(d[k]) + TagCount(d, S \ {k})

\* the tag dictionaries xtd.tag_list_to_dict hands to the engine
\* (operations.py:58, 80, 112, 143): a dictionary built from a tag list, or
\* one passed as a dictionary, in which a key may list no value at all
TagDicts ==
    {d \in UNION {[D -> ValueLists] : D \in SUBSET Keys} :
        TagCount(d, DOMAIN d) <= MaxTags}

\* the orders in which a loop may visit the members of S: tags.items()
\* and attributes.keys() promise none
Orders(S) ==
    {s \in [1..Cardinality(S) -> S] : \A i, j \in 1..Cardinality(S) : i # j => s[i] # s[j]}

\* an attribute no tag operation owns, present on the file from the start
ForeignName == <<"u","s","e","r",".","x">>

-----------------------------------------------------------------------------
(* The attribute table: xattr.xattr(fname) *)

\* name in attributes / attributes.keys()
Has(A, name) == name \in DOMAIN A

\* attributes[name] = value
SetAttr(A, name, value) ==
    [n \in DOMAIN A \cup {name} |-> IF n = name THEN value ELSE A[n]]

\* attributes.remove(name), when name is present
RemoveAttr(A, name) == [n \in DOMAIN A \ {name} |-> A[n]]

\* the running state of an engine call: the table, the warnings so far, and
\* the exception that ended it ("none" while it runs)
Running(A) == [attrs |-> A, warns |-> <<>>, raised |-> "none"]

Warn(st, kind, key) ==
    [st EXCEPT !.warns = Append(@, [kind |-> kind, key |-> key])]

\* (k or constants.DEFAULT_TAG_KEY), operations.py:126, 130, 161
KeyOrDefault(k) == IF k = Empty THEN TagsKey ELSE k

-----------------------------------------------------------------------------
(* operations.py: add_tags *)

\* one pass of the loop body of add_tags as it would be without the test of
\* operations.py:63-64: the sentinel is added like any other value
add_tags_key_no_skip(st, key, value_list) ==
    LET xattr_key == xatag_to_xattr_key(key)
        current_field == IF Has(st.attrs, xattr_key) THEN st.attrs[xattr_key] ELSE Empty
        new_field == add_tag_values_to_xattr_value(current_field, value_list)
    IN  IF Len(value_list) # 0
        THEN [st EXCEPT !.attrs = SetAttr(@, xattr_key, new_field)]
        ELSE st

\* one pass of the loop body of add_tags, operations.py:61-75
add_tags_key(st, key, value_list) ==
    LET empties == SelectSeq(value_list, LAMBDA v : v = Empty)
        values_to_add == SelectSeq(value_list, LAMBDA v : v # Empty)
        warned == [st EXCEPT !.warns = @ \o
                      [i \in 1..Len(empties) |-> [kind |-> "missing value", key |-> key]]]
        xattr_key == xatag_to_xattr_key(key)
        current_field == IF Has(st.attrs, xattr_key) THEN st.attrs[xattr_key] ELSE Empty
        new_field == add_tag_values_to_xattr_value(current_field, values_to_add)
    IN  IF Len(values_to_add) # 0
        THEN [warned EXCEPT !.attrs = SetAttr(@, xattr_key, new_field)]
        ELSE warned

RECURSIVE add_tags_loop(_, _, _)
add_tags_loop(st, tags, order) ==
    IF order = <<>> THEN st
    ELSE add_tags_loop(add_tags_key(st, order[1], tags[order[1]]), tags, Tail(order))

\* add_tags(fname, tags, **unused), operations.py:56-75; quiet, when given,
\* lands in **unused
add_tags(A, tags, quiet, order) == add_tags_loop(Running(A), tags, order)

-----------------------------------------------------------------------------
(* operations.py: set_tags, set_all_tags, delete_all_tags *)

\* one pass of the loop body of set_tags, operations.py:83-88;
\* attributes.remove of an absent name raises IOError and ends the call
set_tags_key(st, k, v) ==
    LET xattr_key == xatag_to_xattr_key(k)
        xattr_value == list_to_xattr_value(v)
    IN  IF st.raised # "none" THEN st
        ELSE IF xattr_value = Empty
             THEN IF Has(st.attrs, xattr_key)
                  THEN [st EXCEPT !.attrs = RemoveAttr(@, xattr_key)]
                  ELSE [st EXCEPT !.raised = "IOError"]
             ELSE [st EXCEPT !.attrs = SetAttr(@, xattr_key, xattr_value)]

RECURSIVE set_tags_loop(_, _, _)
set_tags_loop(st, tags, order) ==
    IF order = <<>> THEN st
    ELSE set_tags_loop(set_tags_key(st, order[1], tags[order[1]]), tags, Tail(order))

\* set_tags(fname, tags), operations.py:78-88
set_tags(A, tags, order) == set_tags_loop(Running(A), tags, order)

\* delete_all_tags as it would be without the test of line 171: every
\* attribute of the file is removed
delete_all_tags_every_attribute(A) == [n \in {} |-> A[n]]

\* delete_all_tags(fname), operations.py:167-172
delete_all_tags(A) ==
    [n \in {m \in DOMAIN A : ~is_xatag_xattr_key(m)} |-> A[n]]

\* set_all_tags(fname, tags), operations.py:91-94
set_all_tags(A, tags, order) == set_tags(delete_all_tags(A), tags, order)

-----------------------------------------------------------------------------
(* operations.py: delete_tags *)

\* delete_these_tags_key as it would be without the branch of operations.py
\* 127-131: the new field is written even when it is empty
delete_these_tags_key_writes_empty(st, k, vlist, quiet) ==
    LET xattr_key == xatag_to_xattr_key(k)
        current_field == st.attrs[xattr_key]
        new_field == remove_tag_values_from_xattr_value(current_field, vlist, FALSE)
        w1 == IF current_field = new_field /\ ~quiet
              THEN Warn(st, "tag key unchanged", KeyOrDefault(k))
              ELSE st
    IN  IF ~Has(st.attrs, xattr_key) THEN st
        ELSE IF Empty \in Range(vlist)
             THEN [st EXCEPT !.attrs = RemoveAttr(@, xattr_key)]
             ELSE [w1 EXCEPT !.attrs = SetAttr(@, xattr_key, new_field)]

\* delete_these_tags_key as it would be if line 117 tested vlist == ['']:
\* the sentinel counts only when it is listed alone
delete_these_tags_key_sole_sentinel(st, k, vlist, quiet) ==
    LET xattr_key == xatag_to_xattr_key(k)
        current_field == st.attrs[xattr_key]
        new_field == remove_tag_values_from_xattr_value(current_field, vlist, FALSE)
        w1 == IF current_field = new_field /\ ~quiet
              THEN Warn(st, "tag key unchanged", KeyOrDefault(k))
              ELSE st
        w2 == IF ~quiet
              THEN Warn(w1, "removing empty tag key", KeyOrDefault(k))
              ELSE w1
    IN  IF ~Has(st.attrs, xattr_key) THEN st
        ELSE IF vlist = <<Empty>>
             THEN [st EXCEPT !.attrs = RemoveAttr(@, xattr_key)]
             ELSE IF new_field = Empty
                  THEN [w2 EXCEPT !.attrs = RemoveAttr(@, xattr_key)]
                  ELSE [w1 EXCEPT !.attrs = SetAttr(@, xattr_key, new_field)]

\* one pass of the loop body of delete_these_tags, operations.py:115-133
delete_these_tags_key(st, k, vlist, quiet) ==
    LET xattr_key == xatag_to_xattr_key(k)
        current_field == st.attrs[xattr_key]
        new_field == remove_tag_values_from_xattr_value(current_field, vlist, FALSE)
        w1 == IF current_field = new_field /\ ~quiet
              THEN Warn(st, "tag key unchanged", KeyOrDefault(k))
              ELSE st
        w2 == IF ~quiet
              THEN Warn(w1, "removing empty tag key", KeyOrDefault(k))
              ELSE w1
    IN  IF ~Has(st.attrs, xattr_key) THEN st
        ELSE IF Empty \in Range(vlist)
             THEN [st EXCEPT !.attrs = RemoveAttr(@, xattr_key)]
             ELSE IF new_field = Empty
                  THEN [w2 EXCEPT !.attrs = RemoveAttr(@, xattr_key)]
                  ELSE [w1 EXCEPT !.attrs = SetAttr(@, xattr_key, new_field)]

RECURSIVE delete_these_tags_loop(_, _, _, _)
delete_these_tags_loop(st, tags, quiet, order) ==
    IF order = <<>> THEN st
    ELSE delete_these_tags_loop(
             delete_these_tags_key(st, order[1], tags[order[1]], quiet),
             tags, quiet, Tail(order))

\* delete_these_tags(fname, tags, quiet), operations.py:110-133
delete_these_tags(A, tags, quiet, order) ==
    delete_these_tags_loop(Running(A), tags, quiet, order)

\* one pass of the loop body of delete_other_tags, operations.py:148-164
delete_other_tags_key(st, xattr_key, tags, quiet) ==
    LET k == xattr_to_xatag_key(xattr_key)
        current_field == st.attrs[xattr_key]
        vlist == tags[k]
        new_field == remove_tag_values_from_xattr_value(current_field, vlist, TRUE)
        w == IF ~quiet
             THEN Warn(st, "removing empty tag key", KeyOrDefault(k))
             ELSE st
    IN  IF ~is_xatag_xattr_key(xattr_key) THEN st
        ELSE IF k \notin DOMAIN tags
             THEN [st EXCEPT !.attrs = RemoveAttr(@, xattr_key)]
             ELSE IF new_field = Empty
                  THEN [w EXCEPT !.attrs = RemoveAttr(@, xattr_key)]
                  ELSE [st EXCEPT !.attrs = SetAttr(@, xattr_key, new_field)]

RECURSIVE delete_other_tags_loop(_, _, _, _)
delete_other_tags_loop(st, tags, quiet, order) ==
    IF order = <<>> THEN st
    ELSE delete_other_tags_loop(
             delete_other_tags_key(st, order[1], tags, quiet),
             tags, quiet, Tail(order))

\* delete_other_tags(fname, tags, quiet), operations.py:141-164; order is
\* the list attributes.keys() returned
delete_other_tags(A, tags, quiet, order) ==
    delete_other_tags_loop(Running(A), tags, quiet, order)

\* delete_tags(fname, tags, complement, quiet), operations.py:97-107
delete_tags(A, tags, complement, quiet, order) ==
    IF complement
    THEN delete_other_tags(A, tags, quiet, order)
    ELSE delete_these_tags(A, tags, quiet, order)

-----------------------------------------------------------------------------
(* operations.py: copy_tags *)

\* a value list that names no value: the wildcard of select and subtract
IsWildcard(vlist) == Range(vlist) \ {Empty} = {}

\* a dictionary without the keys that are left with no value
DropEmptyKeys(d) == [k \in {x \in DOMAIN d : d[x] # <<>>} |-> d[k]]

\* xtd.merge_tags(a, b): union of keys; for keys in both, union of values
merge_tags(a, b) ==
    [k \in DOMAIN a \cup DOMAIN b |->
        IF k \notin DOMAIN b THEN a[k]
        ELSE IF k \notin DOMAIN a THEN b[k]
        ELSE a[k] \o SelectSeq(b[k], LAMBDA v : v \notin Range(a[k]))]

\* xtd.select_tags(a, b): keep only the keys present in b; for these,
\* intersect the values unless b's value set is the wildcard
select_tags(a, b) ==
    DropEmptyKeys(
        [k \in DOMAIN a \cap DOMAIN b |->
            IF IsWildcard(b[k]) THEN a[k]
            ELSE SelectSeq(a[k], LAMBDA v : v \in Range(b[k]))])

\* xtd.subtract_tags(a, b, empty_means_all=True): for each key of a, remove
\* the values b lists under it; the whole key when b's value set is the
\* wildcard
subtract_tags(a, b) ==
    DropEmptyKeys(
        [k \in DOMAIN a |->
            IF k \notin DOMAIN b THEN a[k]
            ELSE IF IsWildcard(b[k]) THEN <<>>
            ELSE SelectSeq(a[k], LAMBDA v : v \notin Range(b[k]))])

\* subsetted_tags(source_tags, tags, complement), operations.py:240-247;
\* tags is False or a dictionary, and an empty dictionary is false as well
subsetted_tags(source_tags, tags, complement) ==
    IF tags = <<>> THEN source_tags
    ELSE IF complement THEN subtract_tags(source_tags, tags)
    ELSE select_tags(source_tags, tags)

\* attr.read_tag_dict(destination), called at operations.py:254: the
\* destination's tags as a dictionary (attributes.py names its reader
\* read_tags_as_dict, lines 72-77)
read_tag_dict(A) ==
    [k \in {item[1] : item \in read_tags_as_dict(A)} |->
        (CHOOSE item \in read_tags_as_dict(A) : item[1] = k)[2]]

\* copy_tags as it would be without the merge of line 254: the source's
\* tags are set onto the destination as they are
copy_tags_no_merge(A, source_tags, tags, complement, order) ==
    LET subset == subsetted_tags(source_tags, tags, complement)
        new_order == SelectSeq(order, LAMBDA k : k \in DOMAIN subset)
    IN  set_tags(A, subset, new_order)

\* copy_tags(source_tags, destination, tags, complement),
\* operations.py:250-255
copy_tags(A, source_tags, tags, complement, order) ==
    LET subset == subsetted_tags(source_tags, tags, complement)
        new_tags == merge_tags(subset, read_tag_dict(A))
    IN  set_tags(A, new_tags, order)

\* copy_tags_over(source_tags, destination, tags, complement),
\* operations.py:258-262
copy_tags_over(A, source_tags, tags, complement, order) ==
    copy_tags(delete_all_tags(A), source_tags, tags, complement, order)

\* the keys set_tags is handed by copy_tags: the order of its loop is one
\* of the orders of these
CopyKeys(A, source_tags, tags, complement) ==
    DOMAIN subsetted_tags(source_tags, tags, complement)
        \cup DOMAIN read_tag_dict(A)

-----------------------------------------------------------------------------
(* operations.py: update_recoll_index *)

\* the file names handed to the index refresh
FileNames == {"f1", "f2"}

FileLists == UNION {[1..n -> FileNames] : n \in 0..MaxFiles}

\* how the external steps of the hook may end: find_recoll_base_config_dir
\* raises, returns no directory or returns one (line 341); creating the
\* marker file, opening /dev/null and launching recollindex succeed or
\* raise (lines 343, 347, 349)
Envs ==
    [find : {"raise", "none", "dir"}, marker : {"ok", "raise"},
     devnull : {"ok", "raise"}, popen : {"ok", "raise"}]

\* the arguments of update_recoll_index: files, no_index, and **other_args
\* with or without the key 'destinations'
IndexCalls ==
    {c \in [files : FileLists, no_index : BOOLEAN,
            has_destinations : BOOLEAN, destinations : FileLists] :
        ~c.has_destinations => c.destinations = <<>>}

NoIndexCall ==
    [files |-> <<>>, no_index |-> FALSE, has_destinations |-> FALSE, destinations |-> <<>>]

NoEnv == [find |-> "none", marker |-> "ok", devnull |-> "ok", popen |-> "ok"]

\* the outcome of a call: the exception it ended with, its warnings, whether
\* the marker file was created, whether recollindex was launched and with
\* which arguments, and the caller's list of files afterwards
NoOutcome ==
    [raised |-> "none", warns |-> <<>>, marker |-> FALSE, launched |-> FALSE,
     argv |-> <<>>, files |-> <<>>]

\* update_recoll_index as it would be without the try of lines 340-352: a
\* failure of an external step ends the call
update_recoll_index_no_try(files, no_index, has_destinations, destinations, env) ==
    LET all_files == IF has_destinations THEN files \o destinations ELSE files
        marker == env.find = "dir" /\ env.marker = "ok"
        failed == \/ env.find = "raise"
                  \/ env.find = "dir" /\ env.marker = "raise"
                  \/ env.devnull = "raise"
                  \/ env.popen = "raise"
    IN  IF no_index THEN [NoOutcome EXCEPT !.files = files]
        ELSE IF failed
             THEN [NoOutcome EXCEPT !.files = all_files, !.marker = marker,
                                    !.raised = "IOError"]
             ELSE [NoOutcome EXCEPT !.files = all_files, !.marker = marker,
                                    !.launched = TRUE,
                                    !.argv = <<"recollindex", "-i">> \o all_files]

\* update_recoll_index(files, no_index, **other_args), operations.py:326-352
update_recoll_index(files, no_index, has_destinations, destinations, env) ==
    LET all_files == IF has_destinations THEN files \o destinations ELSE files
        marker == env.find = "dir" /\ env.marker = "ok"
        failed == \/ env.find = "raise"
                  \/ env.find = "dir" /\ env.marker = "raise"
                  \/ env.devnull = "raise"
                  \/ env.popen = "raise"
    IN  IF no_index THEN [NoOutcome EXCEPT !.files = files]
        ELSE IF failed
             THEN [NoOutcome EXCEPT !.files = all_files, !.marker = marker,
                       !.warns = <<"There was a problem updating the Recoll index.">>]
             ELSE [NoOutcome EXCEPT !.files = all_files, !.marker = marker,
                                    !.launched = TRUE,
                                    !.argv = <<"recollindex", "-i">> \o all_files]

-----------------------------------------------------------------------------
(* The engine as a state machine: one action per public operation *)

\* no subset selector: copy_tags' tags=False (an empty dictionary is as false)
NoSelector == <<>>

NoCall ==
    [name |-> "none", tags |-> <<>>, quiet |-> FALSE, complement |-> FALSE,
     selector |-> NoSelector]

Call(name, tags, quiet, complement) ==
    [name |-> name, tags |-> tags, quiet |-> quiet, complement |-> complement,
     selector |-> NoSelector]

\* the source_tags of a copy: what the tags of a source file decode to
\* (decoded keys, each with at least one value, none of them the sentinel)
SourceDicts ==
    {d \in TagDicts :
        \A k \in DOMAIN d : k # TagsKey /\ d[k] # <<>> /\ Empty \notin Range(d[k])}

\* the subset selectors of a copy: the dictionary of one tag
Selectors == {[x \in {k} |-> <<v>>] : k \in Keys, v \in Values}

\* the arguments of a copy: the source's tags, the selector, complement
CopyArgs ==
    (SourceDicts \X {NoSelector} \X {FALSE}) \cup (SourceDicts \X Selectors \X BOOLEAN)

\* a call starts when no call's outcome is pending
Idle == op = NoCall /\ opc = "idle"

\* the effect of a finished (or raised) engine call on the state
Finish(call, st) ==
    /\ attrs' = st.attrs
    /\ pre' = attrs
    /\ op' = call
    /\ warns' = st.warns
    /\ raised' = st.raised
    /\ UNCHANGED <<kvars, cvars, ivars, ovars>>

Init ==
    /\ attrs = [n \in {ForeignName} |-> <<"a">>]
    /\ pre = attrs
    /\ op = NoCall
    /\ warns = <<>>
    /\ raised = "none"
    /\ kin = Empty
    /\ kname = Empty
    /\ kback = Empty
    /\ kpc = "idle"
    /\ cval = Empty
    /\ clist = <<>>
    /\ cout = <<>>
    /\ cpc = "idle"
    /\ iargs = NoIndexCall
    /\ ienv = NoEnv
    /\ iout = NoOutcome
    /\ ipc = "idle"
    /\ ot1 = <<>>
    /\ ot2 = <<>>
    /\ oab = <<>>
    /\ oba = <<>>
    /\ opc = "idle"

AddTags ==
    /\ Idle
    /\ \E tags \in TagDicts, quiet \in BOOLEAN : \E order \in Orders(DOMAIN tags) :
        Finish(Call("add_tags", tags, quiet, FALSE), add_tags(attrs, tags, quiet, order))

SetTags ==
    /\ Idle
    /\ \E tags \in TagDicts : \E order \in Orders(DOMAIN tags) :
        Finish(Call("set_tags", tags, FALSE, FALSE), set_tags(attrs, tags, order))

SetAllTags ==
    /\ Idle
    /\ \E tags \in TagDicts : \E order \in Orders(DOMAIN tags) :
        Finish(Call("set_all_tags", tags, FALSE, FALSE), set_all_tags(attrs, tags, order))

DeleteTheseTags ==
    /\ Idle
    /\ \E tags \in TagDicts, quiet \in BOOLEAN : \E order \in Orders(DOMAIN tags) :
        Finish(Call("delete_tags", tags, quiet, FALSE),
               delete_tags(attrs, tags, FALSE, quiet, order))

DeleteOtherTags ==
    /\ Idle
    /\ \E tags \in TagDicts, quiet \in BOOLEAN : \E order \in Orders(DOMAIN attrs) :
        Finish(Call("delete_tags", tags, quiet, TRUE),
               delete_tags(attrs, tags, TRUE, quiet, order))

DeleteAllTags ==
    /\ Idle
    /\ Finish(Call("delete_all_tags", <<>>, FALSE, FALSE), Running(delete_all_tags(attrs)))

CopyTags ==
    /\ Idle
    /\ \E c \in CopyArgs :
         \E order \in Orders(CopyKeys(attrs, c[1], c[2], c[3])) :
            Finish([Call("copy_tags", c[1], FALSE, c[3]) EXCEPT !.selector = c[2]],
                   copy_tags(attrs, c[1], c[2], c[3], order))

CopyTagsOver ==
    /\ Idle
    /\ \E c \in CopyArgs :
         \E order \in Orders(CopyKeys(delete_all_tags(attrs), c[1], c[2], c[3])) :
            Finish([Call("copy_tags_over", c[1], FALSE, c[3]) EXCEPT !.selector = c[2]],
                   copy_tags_over(attrs, c[1], c[2], c[3], order))

\* the caller has seen the outcome of the call (the table it left, the
\* warnings, the exception); the file keeps its attributes
Return ==
    /\ op # NoCall
    /\ op' = NoCall
    /\ pre' = attrs
    /\ warns' = <<>>
    /\ raised' = "none"
    /\ UNCHANGED <<attrs, kvars, cvars, ivars, ovars>>

Next ==
    \/ AddTags
    \/ SetTags
    \/ SetAllTags
    \/ DeleteTheseTags
    \/ DeleteOtherTags
    \/ DeleteAllTags
    \/ CopyTags
    \/ CopyTagsOver
    \/ Return

Spec == Init /\ [][Next]_vars

-----------------------------------------------------------------------------
(* Two add_tags calls in both orders, on two copies of the same file *)

\* the tag dictionaries of the two calls: every key lists a value (a key
\* that lists none is not visited by the inner loop of operations.py:62)
AddDicts ==
    {d \in TagDicts : TagCount(d, DOMAIN d) <= MaxAddTags /\ \A k \in DOMAIN d : d[k] # <<>>}

\* the table add_tags(file, T) leaves when it starts from table A, for
\* one order of its loop
AddResult(A, T, order) == add_tags(A, T, FALSE, order).attrs

\* the file as it is now is copied twice; one copy is given T1 and then T2,
\* the other T2 and then T1; tags.items() visits the keys of a dictionary
\* in some order, the same for the same dictionary
AddBothOrders ==
    /\ Idle
    /\ \E T1, T2 \in AddDicts :
         \E o1 \in Orders(DOMAIN T1), o2 \in Orders(DOMAIN T2) :
            /\ ot1' = T1
            /\ ot2' = T2
            /\ oab' = AddResult(AddResult(attrs, T1, o1), T2, o2)
            /\ oba' = AddResult(AddResult(attrs, T2, o2), T1, o1)
            /\ opc' = "done"
    /\ UNCHANGED <<attrs, pre, op, warns, raised, kvars, cvars, ivars>>

\* the file is brought to its state by set_tags, which stores any encoding
\* the engine can store
NextAddOrder ==
    \/ SetTags
    \/ Return
    \/ AddBothOrders

SpecAddOrder == Init /\ [][NextAddOrder]_vars

-----------------------------------------------------------------------------
(* The attribute-name adapter on its own: a key is turned into an attribute *)
(* name and the name is turned back into a key                             *)

\* the characters of the free-form keys
KeyChars == {"a", "g", "s", "t", "."}

\* the keys given to the adapter: every string over KeyChars of at most
\* MaxKeyLen characters, the key 'tags', and keys that hold the text of the
\* namespace prefix
KeyInputs ==
    UNION {[1..n -> KeyChars] : n \in 0..MaxKeyLen}
    \cup {TagsKey, XATTR_PREFIX, <<"a", ".">> \o XATTR_PREFIX, UserDot \o XATTR_PREFIX}

InitKey ==
    /\ attrs = [n \in {ForeignName} |-> <<"a">>]
    /\ pre = attrs
    /\ op = NoCall
    /\ warns = <<>>
    /\ raised = "none"
    /\ kin \in KeyInputs
    /\ kname = Empty
    /\ kback = Empty
    /\ kpc = "key"
    /\ cval = Empty
    /\ clist = <<>>
    /\ cout = <<>>
    /\ cpc = "idle"
    /\ iargs = NoIndexCall
    /\ ienv = NoEnv
    /\ iout = NoOutcome
    /\ ipc = "idle"
    /\ ot1 = <<>>
    /\ ot2 = <<>>
    /\ oab = <<>>
    /\ oba = <<>>
    /\ opc = "idle"

\* name = xatag_to_xattr_key(key)
ToName ==
    /\ kpc = "key"
    /\ kname' = xatag_to_xattr_key(kin)
    /\ kpc' = "name"
    /\ UNCHANGED <<attrs, pre, op, warns, raised, kin, kback, cvars, ivars, ovars>>

\* key = xattr_to_xatag_key(name)
ToKey ==
    /\ kpc = "name"
    /\ kback' = xattr_to_xatag_key(kname)
    /\ kpc' = "back"
    /\ UNCHANGED <<attrs, pre, op, warns, raised, kin, kname, cvars, ivars, ovars>>

NextKey ==
    \/ ToName
    \/ ToKey

SpecKey == InitKey /\ [][NextKey]_vars

-----------------------------------------------------------------------------
(* The codec on its own: a list of values is encoded and the encoding is   *)
(* decoded; values are added to an encoded value                           *)

\* the values given to the codec: the sentinel, plain values, values with
\* blanks around them, a blank value, and values that hold the separator
CodecValues ==
    {Empty, <<"a">>, <<"b">>, <<" ", "a">>, <<"b", " ">>, <<" ">>,
     <<"a", ";", "b">>, <<";">>}

\* the value lists given to the codec, duplicates included
CodecLists == UNION {[1..n -> CodecValues] : n \in 0..MaxValues}

\* the encoded values given to add_tag_values_to_xattr_value: '' (no
\* attribute yet, operations.py:71), what the engine stores, and a value as
\* another program may have left it
CodecEncoded ==
    {Empty, <<"a">>, <<"b">>, <<"a", ";", "b">>, <<";", "a">>, <<"b", ";", " ", "a">>}

InitCodec ==
    /\ attrs = [n \in {ForeignName} |-> <<"a">>]
    /\ pre = attrs
    /\ op = NoCall
    /\ warns = <<>>
    /\ raised = "none"
    /\ kin = Empty
    /\ kname = Empty
    /\ kback = Empty
    /\ kpc = "idle"
    /\ cval \in CodecEncoded
    /\ clist \in CodecLists
    /\ cout = <<>>
    /\ cpc = "in"
    /\ iargs = NoIndexCall
    /\ ienv = NoEnv
    /\ iout = NoOutcome
    /\ ipc = "idle"
    /\ ot1 = <<>>
    /\ ot2 = <<>>
    /\ oab = <<>>
    /\ oba = <<>>
    /\ opc = "idle"

\* cval = list_to_xattr_value(clist)
Encode ==
    /\ cpc = "in"
    /\ cval' = list_to_xattr_value(clist)
    /\ cpc' = "encoded"
    /\ UNCHANGED <<attrs, pre, op, warns, raised, kvars, clist, cout, ivars, ovars>>

\* cout = xattr_value_to_list(cval)
Decode ==
    /\ cpc = "encoded"
    /\ cout' = xattr_value_to_list(cval)
    /\ cpc' = "decoded"
    /\ UNCHANGED <<attrs, pre, op, warns, raised, kvars, cval, clist, ivars, ovars>>

\* cout = add_tag_values_to_xattr_value(cval, clist)
AddValues ==
    /\ cpc = "in"
    /\ cout' = add_tag_values_to_xattr_value(cval, clist)
    /\ cpc' = "added"
    /\ UNCHANGED <<attrs, pre, op, warns, raised, kvars, cval, clist, ivars, ovars>>

NextCodec ==
    \/ Encode
    \/ Decode
    \/ AddValues

SpecCodec == InitCodec /\ [][NextCodec]_vars

-----------------------------------------------------------------------------
(* The index refresh on its own *)

InitIndex ==
    /\ attrs = [n \in {ForeignName} |-> <<"a">>]
    /\ pre = attrs
    /\ op = NoCall
    /\ warns = <<>>
    /\ raised = "none"
    /\ kin = Empty
    /\ kname = Empty
    /\ kback = Empty
    /\ kpc = "idle"
    /\ cval = Empty
    /\ clist = <<>>
    /\ cout = <<>>
    /\ cpc = "idle"
    /\ iargs \in IndexCalls
    /\ ienv \in Envs
    /\ iout = NoOutcome
    /\ ipc = "call"
    /\ ot1 = <<>>
    /\ ot2 = <<>>
    /\ oab = <<>>
    /\ oba = <<>>
    /\ opc = "idle"

UpdateRecollIndex ==
    /\ ipc = "call"
    /\ iout' = update_recoll_index(iargs.files, iargs.no_index,
                                   iargs.has_destinations, iargs.destinations, ienv)
    /\ ipc' = "done"
    /\ UNCHANGED <<attrs, pre, op, warns, raised, kvars, cvars, iargs, ienv, ovars>>

NextIndex == UpdateRecollIndex

SpecIndex == InitIndex /\ [][NextIndex]_vars

-----------------------------------------------------------------------------
(* Vocabulary of the properties *)

\* the attribute names of the table that the tag operations own
Owned(A) == {n \in DOMAIN A : is_xatag_xattr_key(n)}

\* the values an attribute holds, as a set; none when it is absent
ValuesAt(A, n) == IF Has(A, n) THEN Range(xattr_value_to_list(A[n])) ELSE {}

\* the values of a given list other than the sentinel ''
RealValues(vlist) == Range(vlist) \ {Empty}

\* the last call was a direct delete / a complement delete
DirectDelete == op.name = "delete_tags" /\ ~op.complement
ComplementDelete == op.name = "delete_tags" /\ op.complement

-----------------------------------------------------------------------------
(* C1 *)

\* C1: empty-result cleanup.  In every state reached from a file with no
\* owned attribute by add_tags, set_tags, set_all_tags, delete_tags (direct
\* and complement), delete_all_tags and copy_tags, no owned attribute holds
\* a zero-length value, and none holds a value that decodes to no value at
\* all: a key whose value set became empty has no attribute.
C1_EmptyResultCleanup ==
    \A n \in Owned(attrs) :
        /\ attrs[n] # Empty
        /\ xattr_value_to_list(attrs[n]) # <<>>

\* C1 witness: a direct delete that named plain values (no sentinel) took
\* the last values of a key that had some, and the attribute is gone
C1_Witness ==
    /\ DirectDelete
    /\ \E k \in DOMAIN op.tags :
          /\ Empty \notin Range(op.tags[k])
          /\ ValuesAt(pre, xatag_to_xattr_key(k)) # {}
          /\ ~Has(attrs, xatag_to_xattr_key(k))

-----------------------------------------------------------------------------
(* C2 *)

\* a value is the join of non-empty tokens in ascending order: no leading
\* separator, no trailing separator, no empty token
WellFormedValue(value) ==
    LET tokens == Split(value, XATTR_FIELD_SEPARATOR)
    IN  /\ \A i \in 1..Len(tokens) : tokens[i] # Empty
        /\ \A i \in 1..(Len(tokens) - 1) : ~StrLess(tokens[i + 1], tokens[i])

\* C2: on-disk encoding.  Every attribute value written by add_tags,
\* set_tags, set_all_tags, delete_tags or copy_tags, whatever the tag
\* dictionary (value lists that hold the sentinel '' next to real values
\* included), is the key's values joined by ';' in sorted order with no
\* leading separator, no trailing separator and no empty token.
C2_EncodingWellFormed ==
    \A n \in Owned(attrs) : WellFormedValue(attrs[n])

-----------------------------------------------------------------------------
(* C3 *)

\* C3: set_all_tags(file, tags) completes, and afterwards the owned
\* attributes decode to exactly tags: every key of tags with a non-empty
\* value set is present with exactly those values, and no other owned
\* attribute exists.
C3_SetAllTagsExact ==
    op.name = "set_all_tags" =>
        /\ raised = "none"
        /\ \A k \in DOMAIN op.tags :
              RealValues(op.tags[k]) # {} =>
                  /\ Has(attrs, xatag_to_xattr_key(k))
                  /\ ValuesAt(attrs, xatag_to_xattr_key(k)) = RealValues(op.tags[k])
        /\ \A n \in Owned(attrs) :
              \E k \in DOMAIN op.tags :
                  RealValues(op.tags[k]) # {} /\ n = xatag_to_xattr_key(k)

-----------------------------------------------------------------------------
(* C4 *)

\* C4: complement delete keeps only.  After delete_tags(file, {k: [v]},
\* complement=True), for a plain value v, the owned attributes are exactly
\* key k's attribute holding {v} when k held v before, and none at all when
\* it did not; this for every key k, the default category included.
C4_ComplementKeepsOnly ==
    \A k \in Keys, v \in Values \ {Empty} :
        (ComplementDelete /\ DOMAIN op.tags = {k} /\ op.tags[k] = <<v>>) =>
            IF v \in ValuesAt(pre, xatag_to_xattr_key(k))
            THEN /\ Owned(attrs) = {xatag_to_xattr_key(k)}
                 /\ ValuesAt(attrs, xatag_to_xattr_key(k)) = {v}
            ELSE Owned(attrs) = {}

-----------------------------------------------------------------------------
(* C5 *)

\* C5: wildcard delete.  After a direct delete whose value list for a key
\* holds the sentinel '', that key's attribute is absent, whatever values it
\* held and whatever other values are listed next to the sentinel.
C5_WildcardDelete ==
    DirectDelete =>
        \A k \in DOMAIN op.tags :
            Empty \in Range(op.tags[k]) => ~Has(attrs, xatag_to_xattr_key(k))

\* C5 witness: the sentinel was listed next to a value the key did not
\* hold, the key held another value, and its attribute is gone
C5_Witness ==
    /\ DirectDelete
    /\ \E k \in DOMAIN op.tags :
          /\ Empty \in Range(op.tags[k])
          /\ RealValues(op.tags[k]) # {}
          /\ ValuesAt(pre, xatag_to_xattr_key(k)) \ RealValues(op.tags[k]) # {}
          /\ ~Has(attrs, xatag_to_xattr_key(k))

-----------------------------------------------------------------------------
(* C6 *)

\* C6: idempotence of add.  In the state an add_tags(file, T) leaves,
\* whatever the state it started from, a second add_tags(file, T) leaves
\* the attribute table as it is, in whatever order it visits the keys.
C6_AddIdempotent ==
    op.name = "add_tags" =>
        \A order \in Orders(DOMAIN op.tags) :
            add_tags(attrs, op.tags, op.quiet, order).attrs = attrs

\* C6 witness: an add_tags that added a value to a key that held another
C6_Witness ==
    /\ op.name = "add_tags"
    /\ \E k \in DOMAIN op.tags :
          /\ ValuesAt(pre, xatag_to_xattr_key(k)) # {}
          /\ ValuesAt(attrs, xatag_to_xattr_key(k))
                 # ValuesAt(pre, xatag_to_xattr_key(k))

-----------------------------------------------------------------------------
(* C7 *)

\* C7: quiet suppresses every advisory warning.  A call of add, direct
\* delete or complement delete with quiet=True emits no warning, the 'tag
\* is missing value' warning of add included.
C7_QuietSuppressesWarnings ==
    (op.name \in {"add_tags", "delete_tags"} /\ op.quiet) => warns = <<>>

-----------------------------------------------------------------------------
(* C8 *)

\* the table set_tags starts from in the last call: set_all_tags empties
\* the owned attributes first
SetTagsStart == IF op.name = "set_all_tags" THEN delete_all_tags(pre) ELSE pre

\* C8: not-found is already-satisfied.  When set_tags (alone, or inside
\* set_all_tags) is given a key whose values encode to the empty string and
\* whose attribute is absent from the file, the call raises no error, that
\* attribute stays absent, and the remaining keys are processed: every key
\* with a non-empty encoding holds that encoding afterwards.  (Stated for
\* calls whose keys name different attributes.)
C8_NotFoundIsSatisfied ==
    ( /\ op.name \in {"set_tags", "set_all_tags"}
      /\ \A k1, k2 \in DOMAIN op.tags :
            k1 # k2 => xatag_to_xattr_key(k1) # xatag_to_xattr_key(k2)
      /\ \E k \in DOMAIN op.tags :
            /\ list_to_xattr_value(op.tags[k]) = Empty
            /\ ~Has(SetTagsStart, xatag_to_xattr_key(k)) )
    =>
        /\ raised = "none"
        /\ \A k \in DOMAIN op.tags :
              IF list_to_xattr_value(op.tags[k]) = Empty
              THEN ~Has(attrs, xatag_to_xattr_key(k))
              ELSE /\ Has(attrs, xatag_to_xattr_key(k))
                   /\ attrs[xatag_to_xattr_key(k)] = list_to_xattr_value(op.tags[k])

-----------------------------------------------------------------------------
(* C9 *)

\* sub occurs in s
Contains(s, sub) ==
    \E i \in 1..(Len(s) - Len(sub) + 1) : SubSeq(s, i, i + Len(sub) - 1) = sub

\* C9 as claimed: xattr_to_xatag_key(xatag_to_xattr_key(k)) = k for every
\* valid normalized key k, the default key '' and the key 'tags' included,
\* and two different keys never get the same attribute name.
C9_NameRoundTrip ==
    /\ kpc = "back" => kback = kin
    /\ kpc = "name" =>
           \A k2 \in KeyInputs : xatag_to_xattr_key(k2) = kname => k2 = kin

\* C9 as amended: the round trip returns k for every normalized key k other
\* than 'tags' that does not hold the text 'org.xatag.tags'; 'tags' gets
\* the attribute name of the default key '' and is read back as ''; two
\* different keys get the same attribute name only when they are '' and
\* 'tags'.
C9_NameRoundTripAmended ==
    /\ (kpc = "back" /\ kin # TagsKey /\ ~Contains(kin, XATTR_PREFIX)) => kback = kin
    /\ (kpc = "back" /\ kin = TagsKey) => kback = Empty
    /\ kpc = "name" =>
           \A k2 \in KeyInputs :
               (xatag_to_xattr_key(k2) = kname /\ k2 # kin) => {k2, kin} = {Empty, TagsKey}

\* C9 witness: a key with a '.' inside came back from its attribute name
C9_Witness ==
    /\ kpc = "back"
    /\ kin = <<"a", ".", "g">>
    /\ kname = UserDot \o XATTR_PREFIX \o <<".", "a", ".", "g">>
    /\ kback = kin

-----------------------------------------------------------------------------
(* C10 *)

-----------------------------------------------------------------------------
(* C11 *)

\* the values the source of the last copy lists under the keys that are
\* stored in the attribute named n
SourceValuesAt(n) ==
    UNION {Range(op.tags[k]) : k \in {x \in DOMAIN op.tags : xatag_to_xattr_key(x) = n}}

\* the attribute names of the keys of the last call's tags argument
MentionedNames == {xatag_to_xattr_key(k) : k \in DOMAIN op.tags}

-----------------------------------------------------------------------------
(* C12 *)

\* the normalized values of a list, as a set
Normalized(list) == {format_tag_value(list[i]) : i \in 1..Len(list)}

\* no value of the list holds the field separator
SeparatorFree(list) ==
    \A i \in 1..Len(list) : \A j \in 1..Len(list[i]) : list[i][j] # XATTR_FIELD_SEPARATOR

\* C12 as claimed: codec round trip.  For any list S of tag values (none
\* holding the separator), xattr_value_to_list(list_to_xattr_value(S)) has
\* exactly the normalized values of S as members, the empty string, a valid
\* normalized value, included.
C12_CodecRoundTrip ==
    (cpc = "decoded" /\ SeparatorFree(clist)) => Range(cout) = Normalized(clist)

\* C12 as amended: for any list S of tag values none of which holds the
\* separator, xattr_value_to_list(list_to_xattr_value(S)) has exactly the
\* non-empty normalized values of S as members: the sentinel '' and the
\* values that normalize to it do not come back.
C12_CodecRoundTripAmended ==
    (cpc = "decoded" /\ SeparatorFree(clist)) =>
        Range(cout) = Normalized(clist) \ {Empty}

\* C12 witness: a list of two values, one with a blank to trim, given in
\* descending order, came back as the two normalized values
C12_Witness ==
    /\ cpc = "decoded"
    /\ clist = << <<"b", " ">>, <<"a">> >>
    /\ cval = <<"a", ";", "b">>
    /\ cout = << <<"a">>, <<"b">> >>

-----------------------------------------------------------------------------
(* C13 *)

\* some external step of the hook fails in the environment of the call
HookFails ==
    \/ ienv.find = "raise"
    \/ ienv.find = "dir" /\ ienv.marker = "raise"
    \/ ienv.devnull = "raise"
    \/ ienv.popen = "raise"

\* C13: index-refresh failures are never fatal.  update_recoll_index
\* returns normally whatever its arguments (with or without 'destinations')
\* and however the external steps end (no configuration directory, marker
\* file not writable, recollindex not launched); it emits one warning when a
\* step failed and none otherwise; with no_index=True it creates no marker
\* file, launches nothing and emits nothing.
C13_IndexRefreshNeverFatal ==
    ipc = "done" =>
        /\ iout.raised = "none"
        /\ Len(iout.warns) <= 1
        /\ (~iargs.no_index /\ HookFails) => Len(iout.warns) = 1 /\ ~iout.launched
        /\ (~iargs.no_index /\ ~HookFails) => iout.warns = <<>> /\ iout.launched
        /\ iargs.no_index =>
              ~iout.marker /\ ~iout.launched /\ iout.warns = <<>> /\ iout.files = iargs.files

\* C13 witness: a call with 'destinations' in which the directory was found
\* and the marker file could not be written has returned with one warning
C13_Witness ==
    /\ ipc = "done"
    /\ ~iargs.no_index
    /\ iargs.has_destinations
    /\ iargs.destinations # <<>>
    /\ ienv.find = "dir"
    /\ ienv.marker = "raise"
    /\ iout.raised = "none"
    /\ Len(iout.warns) = 1

-----------------------------------------------------------------------------
(* C14 *)

\* the keys of the last call's tags argument name different attributes
DistinctNames ==
    \A k1, k2 \in DOMAIN op.tags :
        k1 # k2 => xatag_to_xattr_key(k1) # xatag_to_xattr_key(k2)

\* the last call emitted the warning kind for key k
Warned(kind, k) ==
    \E i \in 1..Len(warns) : warns[i] = [kind |-> kind, key |-> KeyOrDefault(k)]

\* C14: no-op delete warning.  After a direct delete with quiet=False, for
\* every mentioned key whose attribute was present and whose value list does
\* not hold the sentinel, the 'tag key unchanged' warning was emitted if and
\* only if the key's decoded value set is the same as before the delete;
\* this in every state the engine's own operations reach.  (Stated for
\* calls whose keys name different attributes.)
C14_NoOpDeleteWarning ==
    (DirectDelete /\ ~op.quiet /\ DistinctNames) =>
        \A k \in DOMAIN op.tags :
            LET n == xatag_to_xattr_key(k)
            IN  (Has(pre, n) /\ Empty \notin Range(op.tags[k])) =>
                    (Warned("tag key unchanged", k) <=> ValuesAt(attrs, n) = ValuesAt(pre, n))

-----------------------------------------------------------------------------
(* C15 *)

\* the tokens of an encoded value, as stored: none for the empty string
Tokens(value) == IF value = Empty THEN <<>> ELSE Split(value, XATTR_FIELD_SEPARATOR)

\* every value of the list is normalized, not the sentinel, and free of the
\* separator
PlainValues(list) ==
    /\ SeparatorFree(list)
    /\ \A i \in 1..Len(list) : list[i] # Empty /\ format_tag_value(list[i]) = list[i]

\* C15: add_tag_values_to_xattr_value(encoded, valuesToAdd), for plain
\* values to add, returns the encoding of the set union of decode(encoded)
\* and valuesToAdd: its tokens are exactly the members of the union and each
\* occurs once, also when valuesToAdd lists the same value more than once.
C15_AddValuesIsUnion ==
    (cpc = "added" /\ PlainValues(clist)) =>
        /\ Range(Tokens(cout)) = Range(xattr_value_to_list(cval)) \cup Range(clist)
        /\ \A i, j \in 1..Len(Tokens(cout)) : i # j => Tokens(cout)[i] # Tokens(cout)[j]

-----------------------------------------------------------------------------
(* C16 *)

\* the values other than the sentinel that the last call's tags argument
\* lists under the keys stored in the attribute named n
RealValuesAt(n) ==
    UNION {RealValues(op.tags[k]) : k \in {x \in DOMAIN op.tags : xatag_to_xattr_key(x) = n}}

\* how many times a value list holds the sentinel
SentinelsIn(vlist) == Cardinality({i \in 1..Len(vlist) : vlist[i] = Empty})

\* how many 'tag is missing value' warnings the last call emitted for key k
MissingValueWarnings(k) ==
    Cardinality({i \in 1..Len(warns) : warns[i] = [kind |-> "missing value", key |-> k]})

\* how many times the sentinel is listed in the last call's tags argument
RECURSIVE SentinelCount(_)
SentinelCount(S) ==
    IF S = {} THEN 0
    ELSE LET k == CHOOSE x \in S : TRUE
         IN  SentinelsIn(op.tags[k]) + SentinelCount(S \ {k})

\* C16: add_tags skips the sentinel.  After add_tags the call has ended
\* normally; an attribute whose keys were given no value other than ''
\* is as it was (not created when absent, its stored value untouched); an
\* attribute whose keys were given other values holds its earlier values
\* and exactly these; and for every key one 'tag is missing value' warning
\* was emitted per '' listed, these being all the warnings: a warning does
\* not stop the call from handling the remaining values and keys.
C16_AddSkipsSentinel ==
    op.name = "add_tags" =>
        /\ raised = "none"
        /\ \A n \in MentionedNames :
              IF RealValuesAt(n) = {}
              THEN /\ Has(attrs, n) <=> Has(pre, n)
                   /\ Has(pre, n) => attrs[n] = pre[n]
              ELSE ValuesAt(attrs, n) = ValuesAt(pre, n) \cup RealValuesAt(n)
        /\ \A k \in DOMAIN op.tags :
              MissingValueWarnings(k) = SentinelsIn(op.tags[k])
        /\ Len(warns) = SentinelCount(DOMAIN op.tags)

\* C16 witness: an add_tags that named one key by the sentinel alone, whose
\* attribute was absent and still is, and gave another key a value that it
\* now holds; one warning was emitted
C16_Witness ==
    /\ op.name = "add_tags"
    /\ Len(warns) = 1
    /\ \E k1, k2 \in DOMAIN op.tags :
          /\ op.tags[k1] = <<Empty>>
          /\ ~Has(pre, xatag_to_xattr_key(k1))
          /\ ~Has(attrs, xatag_to_xattr_key(k1))
          /\ RealValues(op.tags[k2]) # {}
          /\ RealValues(op.tags[k2]) \cap ValuesAt(pre, xatag_to_xattr_key(k2)) = {}
          /\ RealValues(op.tags[k2]) \subseteq ValuesAt(attrs, xatag_to_xattr_key(k2))

-----------------------------------------------------------------------------
(* C17 *)

\* the attributes of the table outside the xatag namespace
Foreign(A) == [n \in {m \in DOMAIN A : ~is_xatag_xattr_key(m)} |-> A[n]]

\* C17: the frame of the engine.  No operation creates, changes or removes
\* an attribute whose name is outside the xatag namespace, whether it ends
\* normally or raises; and add_tags, set_tags and a direct delete leave
\* every attribute that stores none of the keys of their tags argument
\* as it was (present or absent, with the same stored value).
C17_Frame ==
    /\ Foreign(attrs) = Foreign(pre)
    /\ Foreign(attrs) = [n \in {ForeignName} |-> <<"a">>]
    /\ (op.name \in {"add_tags", "set_tags"} \/ DirectDelete) =>
           \A n \in (DOMAIN pre \cup DOMAIN attrs) \ MentionedNames :
               /\ Has(attrs, n) <=> Has(pre, n)
               /\ Has(pre, n) => attrs[n] = pre[n]

\* C17 witness: a direct delete removed the attribute of the key it named
\* and left the attribute of a key it did not name, and the attribute
\* outside the namespace, as they were
C17_Witness ==
    /\ DirectDelete
    /\ \E n \in MentionedNames : Has(pre, n) /\ ~Has(attrs, n)
    /\ \E n \in Owned(pre) \ MentionedNames : Has(attrs, n) /\ attrs[n] = pre[n]
    /\ Has(attrs, ForeignName)

-----------------------------------------------------------------------------
(* C18 *)

\* C18: direct and complement delete partition the file's tags.  For the
\* file F a direct delete started from and its tag dictionary B, when B
\* gives every key it mentions a list that is not empty: the tags the direct
\* delete left and the tags delete_other_tags(F, B) leaves (in whatever
\* order it visits the attributes) are disjoint, and together they are
\* exactly the tags of F, attribute by attribute.
C18_DeletePartition ==
    (DirectDelete /\ \A k \in DOMAIN op.tags : op.tags[k] # <<>>) =>
        \A order \in Orders(DOMAIN pre) :
            LET others == delete_other_tags(pre, op.tags, op.quiet, order).attrs
            IN  /\ Owned(attrs) \cup Owned(others) \subseteq Owned(pre)
                /\ \A n \in Owned(pre) :
                      /\ ValuesAt(attrs, n) \cap ValuesAt(others, n) = {}
                      /\ ValuesAt(attrs, n) \cup ValuesAt(others, n) = ValuesAt(pre, n)

-----------------------------------------------------------------------------
(* C19 *)

\* C19: order independence of add.  For every file state and tag
\* dictionaries T1 and T2, add_tags(T1) followed by add_tags(T2) leaves the
\* same attribute table, stored value by stored value, as add_tags(T2)
\* followed by add_tags(T1), whatever the orders of the loops.
C19_AddOrderIndependent ==
    opc = "done" => oab = oba

\* C19 witness: on a file whose key 'g' held ';a' and whose default key
\* held nothing, one call gave the default key 'b' and the other gave it
\* 'a' under the name 'tags'; both copies hold 'a;b'
C19_Witness ==
    /\ opc = "done"
    /\ ~Has(attrs, xatag_to_xattr_key(Empty))
    /\ Has(attrs, xatag_to_xattr_key(<<"g">>))
    /\ attrs[xatag_to_xattr_key(<<"g">>)] = <<";", "a">>
    /\ ot1 = [k \in {Empty} |-> << <<"b">> >>]
    /\ ot2 = [k \in {TagsKey} |-> << <<"a">> >>]
    /\ oab[xatag_to_xattr_key(Empty)] = <<"a", ";", "b">>
    /\ oba = oab

====
